---- MODULE Spec2Model ----
(***************************************************************************)
(* Bit-addressable containers of bv-rs: the capability traits Bits,        *)
(* BitsMut and BitsPush with their default methods (src/traits.rs), the    *)
(* overrides of BitVec (src/bit_vec/impls.rs) and its block storage Inner  *)
(* (src/bit_vec/inner.rs).                                                 *)
(*                                                                         *)
(* Blocks are unsigned integers of W bits, bit 0 least significant.  A     *)
(* container is a record [kind, bits, len, vb]:                            *)
(*   kind = "BitVec"  : bits is the Inner storage, len the bit length;     *)
(*   kind = "VecBool" : vb is a Vec<bool>, which supplies get_bit/set_bit  *)
(*                      and takes get_block/set_block from the defaults;   *)
(*   kind = "Slice"   : a mutable slice of a Vec<bool>: vb is the vector   *)
(*                      it borrows, the field low its first bit and len    *)
(*                      its length; it supplies get_bit/set_bit too.       *)
(* Every operation returns [c, panic, val]: the container afterwards,      *)
(* whether the call panicked, and the value returned.                      *)
(***************************************************************************)
EXTENDS Integers, Sequences, FiniteSets, TLC

VARIABLES kind, bits, len, vb, pc, call

vars == <<kind, bits, len, vb, pc, call>>

\* Block::nbits(), the block width, scaled down from 8..128.
W == 2
\* Largest block capacity the model lets a BitVec grow to.
MaxBlocks == 2
\* Largest length the model lets a Vec<bool> grow to.
MaxBools == 4
\* Largest number of blocks a BitVec is created with.
MaxPre == 1

(***************************************************************************)
(* Block arithmetic (BlockType).                                           *)
(***************************************************************************)
nbits == W

Pow2(n) == 2 ^ n

BlockVals == 0 .. (Pow2(W) - 1)

zero == 0

one == 1

\* bit i of block b, as 0 or 1
BitOf(b, i) == (b \div Pow2(i)) % 2

RECURSIVE BitAndFrom(_, _, _)
BitAndFrom(a, b, i) ==
    IF i = W THEN 0
    ELSE BitOf(a, i) * BitOf(b, i) * Pow2(i) + BitAndFrom(a, b, i + 1)

\* a & b
BitAnd(a, b) == BitAndFrom(a, b, 0)

\* !a
BitNot(a) == (Pow2(W) - 1) - a

\* a | b
BitOr(a, b) == BitNot(BitAnd(BitNot(a), BitNot(b)))

\* a << k, bits shifted out of the block are dropped
Shl(a, k) == (a * Pow2(k)) % Pow2(W)

\* a >> k
Shr(a, k) == a \div Pow2(k)

mod_nbits(n) == n % W

div_nbits(n) == n \div W

mul_nbits(n) == n * W

ceil_div_nbits(n) == (n + (W - 1)) \div W

last_block_bits(n) == IF mod_nbits(n) = 0 THEN W ELSE mod_nbits(n)

block_bits(n, position) ==
    IF position + 1 = ceil_div_nbits(n) THEN last_block_bits(n) ELSE W

low_mask(n) == IF n = W THEN BitNot(zero) ELSE Shl(one, n) - one

Block_get_bit(b, offset) == BitAnd(b, Shl(one, offset)) # zero

Block_with_bit(b, offset, value) ==
    IF value THEN BitOr(b, Shl(one, offset))
    ELSE BitAnd(b, BitNot(Shl(one, offset)))

Block_get_bits(b, start, n) == BitAnd(Shr(b, start), low_mask(n))

Block_with_bits(b, start, n, value) ==
    LET mask == Shl(low_mask(n), start)
        shifted_value == Shl(value, start)
    IN  BitOr(BitAnd(b, BitNot(mask)), BitAnd(shifted_value, mask))

\* Address::new: (block_index, bit_offset) of a bit position
Address(position) ==
    [block_index |-> div_nbits(position), bit_offset |-> mod_nbits(position)]

(***************************************************************************)
(* Results of calls.                                                       *)
(***************************************************************************)
Ret(c, v) == [c |-> c, panic |-> FALSE, val |-> v]

Panicked(c) == [c |-> c, panic |-> TRUE, val |-> 0]

(***************************************************************************)
(* Inner: Option<Box<[Block]>>.                                            *)
(***************************************************************************)
InnerNone == [some |-> FALSE, b |-> <<>>]

InnerSome(blocks) == [some |-> TRUE, b |-> blocks]

Inner_invariant(inner) == IF inner.some THEN Len(inner.b) > 0 ELSE TRUE

Inner_new(init, nblocks) ==
    IF nblocks = 0 THEN InnerNone
    ELSE InnerSome([i \in 1 .. nblocks |-> init])

Inner_len(inner) == IF inner.some THEN Len(inner.b) ELSE 0

Min(a, b) == IF a <= b THEN a ELSE b

Max(a, b) == IF a >= b THEN a ELSE b

\* self[i], panicking on the empty storage and past the end of the slice
Inner_index(inner, index) ==
    IF inner.some /\ index < Len(inner.b)
    THEN [panic |-> FALSE, val |-> inner.b[index + 1]]
    ELSE [panic |-> TRUE, val |-> 0]

\* self[i] = value, same panics
Inner_index_mut(inner, index, value) ==
    IF inner.some /\ index < Len(inner.b)
    THEN [panic |-> FALSE, val |-> [inner EXCEPT !.b[index + 1] = value]]
    ELSE [panic |-> TRUE, val |-> inner]

\* Inner::clone_resize without the early return for new_cap = 0: it boxes the
\* empty array
Inner_clone_resize_BoxesEmpty(inner, n, new_cap) ==
    IF \E i \in 0 .. (Min(n, new_cap) - 1) : Inner_index(inner, i).panic
    THEN [panic |-> TRUE, val |-> inner]
    ELSE [panic |-> FALSE,
          val |-> InnerSome([i \in 1 .. new_cap |->
                      IF i <= Min(n, new_cap) THEN inner.b[i] ELSE zero])]

\* the copy loop reads self[i] for i < min(n, new_cap); it panics when one of
\* these reads does
Inner_clone_resize(inner, n, new_cap) ==
    IF new_cap = 0 THEN [panic |-> FALSE, val |-> InnerNone]
    ELSE IF \E i \in 0 .. (Min(n, new_cap) - 1) : Inner_index(inner, i).panic
    THEN [panic |-> TRUE, val |-> inner]
    ELSE [panic |-> FALSE,
          val |-> InnerSome([i \in 1 .. new_cap |->
                      IF i <= Min(n, new_cap) THEN inner.b[i] ELSE zero])]

(***************************************************************************)
(* Containers.                                                             *)
(***************************************************************************)
BitVecOf(inner, n) == [kind |-> "BitVec", bits |-> inner, len |-> n, vb |-> <<>>]

VecBoolOf(v) == [kind |-> "VecBool", bits |-> InnerNone, len |-> 0, vb |-> v]

\* BitVec::with_block_capacity: no bits, room for nblocks blocks
BitVec_with_block_capacity(nblocks) == BitVecOf(Inner_new(zero, nblocks), 0)

\* BitVec::new_fill: n bits, all equal to value
BitVec_new_fill(value, n) ==
    BitVecOf(Inner_new(IF value THEN BitNot(zero) ELSE zero, ceil_div_nbits(n)), n)

\* the mutable slice [low, high) of the Vec<bool> v
SliceOf(v, low, high) ==
    [kind |-> "Slice", bits |-> InnerNone, len |-> high - low, vb |-> v,
     low |-> low]

bit_len(c) == IF c.kind = "VecBool" THEN Len(c.vb) ELSE c.len

block_len(c) == ceil_div_nbits(bit_len(c))

(***************************************************************************)
(* The methods the implementors supply themselves.  get_bit and get_block  *)
(* are each defined by default in terms of the other, and so are set_bit   *)
(* and set_block: a default calls the method its implementor supplies.     *)
(* BitVec supplies get_block and set_block, Vec<bool> get_bit and set_bit. *)
(***************************************************************************)
\* BitVec::get_block without the mask: the stored block as it is
BitVec_get_block_Unmasked(c, position) ==
    IF ~(position < block_len(c)) THEN Panicked(c)
    ELSE LET e == Inner_index(c.bits, position)
         IN  IF e.panic THEN Panicked(c) ELSE Ret(c, e.val)

BitVec_get_block(c, position) ==
    IF ~(position < block_len(c)) THEN Panicked(c)
    ELSE LET count == block_bits(bit_len(c), position)
             e == Inner_index(c.bits, position)
         IN  IF e.panic THEN Panicked(c)
             ELSE Ret(c, Block_get_bits(e.val, 0, count))

\* BitVec::set_block without the bounds assertion: only the storage's own
\* index check is left
BitVec_set_block_Unchecked(c, position, value) ==
    LET w == Inner_index_mut(c.bits, position, value)
    IN  IF w.panic THEN Panicked(c)
        ELSE Ret([c EXCEPT !.bits = w.val], 0)

BitVec_set_block(c, position, value) ==
    IF ~(position < block_len(c)) THEN Panicked(c)
    ELSE LET w == Inner_index_mut(c.bits, position, value)
         IN  IF w.panic THEN Panicked(c)
             ELSE Ret([c EXCEPT !.bits = w.val], 0)

VecBool_get_bit(c, position) ==
    IF position < Len(c.vb) THEN Ret(c, c.vb[position + 1]) ELSE Panicked(c)

VecBool_set_bit(c, position, value) ==
    IF position < Len(c.vb)
    THEN Ret([c EXCEPT !.vb[position + 1] = value], 0)
    ELSE Panicked(c)

\* BitSliceable::bit_slice of a mutable Vec<bool> by the range low..high
bit_slice(c, low, high) ==
    IF low <= high /\ high <= bit_len(c)
    THEN Ret(SliceOf(c.vb, low, high), 0)
    ELSE Panicked(c)

\* address a of the slice is address low + a of the vector
Slice_get_bit(c, position) ==
    IF position < c.len THEN Ret(c, c.vb[c.low + position + 1]) ELSE Panicked(c)

Slice_set_bit(c, position, value) ==
    IF position < c.len
    THEN Ret([c EXCEPT !.vb[c.low + position + 1] = value], 0)
    ELSE Panicked(c)

\* self.get_block where get_bit is the default
own_get_block(c, position) == BitVec_get_block(c, position)

\* self.set_block where set_bit is the default
own_set_block(c, position, value) == BitVec_set_block(c, position, value)

\* self.get_bit where get_block is the default
own_get_bit(c, position) ==
    IF c.kind = "Slice" THEN Slice_get_bit(c, position)
    ELSE VecBool_get_bit(c, position)

\* self.set_bit where set_block is the default
own_set_bit(c, position, value) ==
    IF c.kind = "Slice" THEN Slice_set_bit(c, position, value)
    ELSE VecBool_set_bit(c, position, value)

(***************************************************************************)
(* Bits: the read path.  Only({e(x) : x \in {d}}) is e with x bound to d.  *)
(***************************************************************************)
Only(S) == CHOOSE x \in S : TRUE

\* Bits::get_bit with the two fields of the address swapped
Bits_get_bit_SwappedAddress(c, position) ==
    IF ~(position < bit_len(c)) THEN Panicked(c)
    ELSE LET address == Address(position)
         IN  Only({ IF block.panic THEN Panicked(c)
                    ELSE Ret(c, Block_get_bit(block.val, address.block_index))
                  : block \in {own_get_block(c, address.bit_offset)} })

Bits_get_bit(c, position) ==
    IF ~(position < bit_len(c)) THEN Panicked(c)
    ELSE LET address == Address(position)
         IN  Only({ IF block.panic THEN Panicked(c)
                    ELSE Ret(c, Block_get_bit(block.val, address.bit_offset))
                  : block \in {own_get_block(c, address.block_index)} })

RECURSIVE get_block_loop(_, _, _, _, _)
get_block_loop(c, bit_position, i, result, mask) ==
    IF i = nbits THEN Ret(c, result)
    ELSE IF bit_position + i < bit_len(c)
         THEN Only({ IF g.panic THEN Panicked(c)
                     ELSE get_block_loop(c, bit_position, i + 1,
                              IF g.val THEN BitOr(result, mask) ELSE result,
                              Shl(mask, 1))
                   : g \in {own_get_bit(c, bit_position + i)} })
         ELSE get_block_loop(c, bit_position, i + 1, result, Shl(mask, 1))

Bits_get_block(c, position) ==
    IF ~(position < block_len(c)) THEN Panicked(c)
    ELSE get_block_loop(c, position * nbits, 0, zero, one)

get_bit(c, position) ==
    IF c.kind = "BitVec" THEN Bits_get_bit(c, position)
    ELSE own_get_bit(c, position)

get_block(c, position) ==
    IF c.kind = "BitVec" THEN BitVec_get_block(c, position)
    ELSE Bits_get_block(c, position)

Bits_get_bits(c, start, count) ==
    LET limit == start + count
        address == Address(start)
        margin == nbits - address.bit_offset
        extra == count - margin
    IN  IF ~(limit <= bit_len(c)) THEN Panicked(c)
        ELSE IF margin >= count
        THEN Only({ IF block.panic THEN Panicked(c)
                    ELSE Ret(c, Block_get_bits(block.val, address.bit_offset, count))
                  : block \in {get_block(c, address.block_index)} })
        ELSE Only({ IF block1.panic \/ block2.panic THEN Panicked(c)
                    ELSE LET low_bits == Block_get_bits(block1.val,
                                             address.bit_offset, margin)
                             high_bits == Block_get_bits(block2.val, 0, extra)
                         IN  Ret(c, BitOr(Shl(high_bits, margin), low_bits))
                  : block1 \in {get_block(c, address.block_index)},
                    block2 \in {get_block(c, address.block_index + 1)} })

get_bits(c, start, count) == Bits_get_bits(c, start, count)

(***************************************************************************)
(* BitsMut: the write path.                                                *)
(***************************************************************************)
\* BitsMut::set_bit that builds the new block from zero, not from the old block
BitsMut_set_bit_DropsOld(c, position, value) ==
    IF ~(position < bit_len(c)) THEN Panicked(c)
    ELSE LET address == Address(position)
         IN  own_set_block(c, address.block_index,
                 Block_with_bit(zero, address.bit_offset, value))

BitsMut_set_bit(c, position, value) ==
    IF ~(position < bit_len(c)) THEN Panicked(c)
    ELSE LET address == Address(position)
         IN  Only({ IF old_block.panic THEN Panicked(c)
                    ELSE own_set_block(c, address.block_index,
                             Block_with_bit(old_block.val, address.bit_offset,
                                            value))
                  : old_block \in {own_get_block(c, address.block_index)} })

RECURSIVE set_block_loop(_, _, _, _, _)
set_block_loop(c, offset, i, limit, value) ==
    IF i = limit THEN Ret(c, 0)
    ELSE Only({ IF s.panic THEN s
                ELSE set_block_loop(s.c, offset, i + 1, limit, Shr(value, 1))
              : s \in {own_set_bit(c, offset + i, BitAnd(value, one) # zero)} })

\* BitsMut::set_block that writes nbits bits into the last block too
BitsMut_set_block_FullLastBlock(c, position, value) ==
    set_block_loop(c, mul_nbits(position), 0, nbits, value)

BitsMut_set_block(c, position, value) ==
    LET limit == IF position + 1 = block_len(c)
                 THEN last_block_bits(bit_len(c))
                 ELSE nbits
        offset == mul_nbits(position)
    IN  set_block_loop(c, offset, 0, limit, value)

set_bit(c, position, value) ==
    IF c.kind = "BitVec" THEN BitsMut_set_bit(c, position, value)
    ELSE own_set_bit(c, position, value)

set_block(c, position, value) ==
    IF c.kind = "BitVec" THEN BitVec_set_block(c, position, value)
    ELSE BitsMut_set_block(c, position, value)

\* BitsMut::set_bits whose single-block write takes all the bits of value up
\* to the end of the block instead of count of them
BitsMut_set_bits_WritesMargin(c, start, count, value) ==
    LET limit == start + count
        address == Address(start)
        margin == nbits - address.bit_offset
        extra == count - margin
        high_bits == Shr(value, margin)
    IN  IF ~(limit <= bit_len(c)) THEN Panicked(c)
        ELSE IF margin >= count
        THEN Only({ IF old_block.panic THEN Panicked(c)
                    ELSE set_block(c, address.block_index,
                             Block_with_bits(old_block.val, address.bit_offset,
                                             margin, value))
                  : old_block \in {get_block(c, address.block_index)} })
        ELSE Only({ IF old_block1.panic \/ old_block2.panic THEN Panicked(c)
                    ELSE Only({ IF s1.panic THEN s1
                                ELSE set_block(s1.c, address.block_index + 1,
                                         Block_with_bits(old_block2.val, 0,
                                                         extra, high_bits))
                              : s1 \in {set_block(c, address.block_index,
                                            Block_with_bits(old_block1.val,
                                                address.bit_offset, margin,
                                                value))} })
                  : old_block1 \in {get_block(c, address.block_index)},
                    old_block2 \in {get_block(c, address.block_index + 1)} })

BitsMut_set_bits(c, start, count, value) ==
    LET limit == start + count
        address == Address(start)
        margin == nbits - address.bit_offset
        extra == count - margin
        high_bits == Shr(value, margin)
    IN  IF ~(limit <= bit_len(c)) THEN Panicked(c)
        ELSE IF margin >= count
        THEN Only({ IF old_block.panic THEN Panicked(c)
                    ELSE set_block(c, address.block_index,
                             Block_with_bits(old_block.val, address.bit_offset,
                                             count, value))
                  : old_block \in {get_block(c, address.block_index)} })
        ELSE Only({ IF old_block1.panic \/ old_block2.panic THEN Panicked(c)
                    ELSE Only({ IF s1.panic THEN s1
                                ELSE set_block(s1.c, address.block_index + 1,
                                         Block_with_bits(old_block2.val, 0,
                                                         extra, high_bits))
                              : s1 \in {set_block(c, address.block_index,
                                            Block_with_bits(old_block1.val,
                                                address.bit_offset, margin,
                                                value))} })
                  : old_block1 \in {get_block(c, address.block_index)},
                    old_block2 \in {get_block(c, address.block_index + 1)} })

set_bits(c, start, count, value) == BitsMut_set_bits(c, start, count, value)

(***************************************************************************)
(* BitsPush: growth.                                                       *)
(***************************************************************************)
\* BitVec::block_capacity: the number of allocated blocks
block_capacity(c) == Inner_len(c.bits)

\* BitVec::reallocate: copy the old contents into a zero-filled array
reallocate(c, new_cap) ==
    Only({ IF r.panic THEN Panicked(c) ELSE Ret([c EXCEPT !.bits = r.val], 0)
         : r \in {Inner_clone_resize(c.bits, block_capacity(c), new_cap)} })

\* BitVec::block_reserve: room for `additional` more blocks, at least doubling
block_reserve(c, additional) ==
    LET old_cap == block_capacity(c)
        intended_cap == block_len(c) + additional
    IN  IF intended_cap <= old_cap THEN Ret(c, 0)
        ELSE reallocate(c, Max(2 * old_cap, intended_cap))

\* BitVec::reserve: room for `additional` more bits, at least doubling
reserve(c, additional) ==
    LET old_cap == block_capacity(c)
        intended_cap == ceil_div_nbits(c.len + additional)
    IN  IF intended_cap <= old_cap THEN Ret(c, 0)
        ELSE reallocate(c, Max(2 * old_cap, intended_cap))

\* BitVec::push
BitVec_push(c, value) ==
    Only({ IF r.panic THEN r
           ELSE set_bit([r.c EXCEPT !.len = r.c.len + 1], r.c.len, value)
         : r \in {reserve(c, 1)} })

\* BitVec::pop; the result is <<>> for None and <<b>> for Some(b)
BitVec_pop(c) ==
    IF c.len > 0
    THEN Only({ IF result.panic THEN Panicked(c)
                ELSE Ret([c EXCEPT !.len = c.len - 1], <<result.val>>)
              : result \in {get_bit(c, c.len - 1)} })
    ELSE Ret(c, <<>>)

\* Vec<bool>::push
VecBool_push(c, value) == Ret([c EXCEPT !.vb = Append(c.vb, value)], 0)

\* Vec<bool>::pop
VecBool_pop(c) ==
    IF Len(c.vb) > 0
    THEN Ret([c EXCEPT !.vb = SubSeq(c.vb, 1, Len(c.vb) - 1)], <<c.vb[Len(c.vb)]>>)
    ELSE Ret(c, <<>>)

push_bit(c, value) ==
    IF c.kind = "BitVec" THEN BitVec_push(c, value) ELSE VecBool_push(c, value)

pop_bit(c) == IF c.kind = "BitVec" THEN BitVec_pop(c) ELSE VecBool_pop(c)

RECURSIVE BitsPush_align_block(_, _)
BitsPush_align_block(c, value) ==
    IF mod_nbits(bit_len(c)) # 0
    THEN Only({ IF p.panic THEN p ELSE BitsPush_align_block(p.c, value)
              : p \in {push_bit(c, value)} })
    ELSE Ret(c, 0)

RECURSIVE push_block_loop(_, _, _)
push_block_loop(c, i, value) ==
    IF i = nbits THEN Ret(c, 0)
    ELSE Only({ IF p.panic THEN p
                ELSE push_block_loop(p.c, i + 1, Shr(value, 1))
              : p \in {push_bit(c, BitAnd(value, one) # zero)} })

\* the default push_block, over the default align_block
BitsPush_push_block(c, value) ==
    Only({ IF a.panic THEN a ELSE push_block_loop(a.c, 0, value)
         : a \in {BitsPush_align_block(c, FALSE)} })

\* BitVec::align_block that pads the last block and forgets to advance len
BitVec_align_block_KeepsLen(c, value) ==
    LET keep_bits == mod_nbits(c.len)
        last_index == block_len(c) - 1
    IN  IF keep_bits > 0
        THEN Only({ IF e.panic THEN Panicked(c)
                    ELSE Ret([c EXCEPT
                                 !.bits.b[last_index + 1] =
                                     IF value
                                     THEN BitOr(e.val, BitNot(low_mask(keep_bits)))
                                     ELSE BitAnd(e.val, low_mask(keep_bits))], 0)
                  : e \in {Inner_index(c.bits, last_index)} })
        ELSE Ret(c, 0)

\* BitVec::align_block that advances len and leaves the slack bits as stored
BitVec_align_block_KeepsSlack(c, value) ==
    LET keep_bits == mod_nbits(c.len)
    IN  IF keep_bits > 0
        THEN Ret([c EXCEPT !.len = c.len + (nbits - keep_bits)], 0)
        ELSE Ret(c, 0)

BitVec_align_block(c, value) ==
    LET keep_bits == mod_nbits(c.len)
        last_index == block_len(c) - 1
    IN  IF keep_bits > 0
        THEN Only({ IF e.panic THEN Panicked(c)
                    ELSE Ret([c EXCEPT
                                 !.bits.b[last_index + 1] =
                                     IF value
                                     THEN BitOr(e.val, BitNot(low_mask(keep_bits)))
                                     ELSE BitAnd(e.val, low_mask(keep_bits)),
                                 !.len = c.len + (nbits - keep_bits)], 0)
                  : e \in {Inner_index(c.bits, last_index)} })
        ELSE Ret(c, 0)

\* BitVec::push_block without the align_block(false) before the push
BitVec_push_block_NoAlign(c, value) ==
    Only({ IF r.panic THEN r
           ELSE set_block([r.c EXCEPT !.len = r.c.len + nbits],
                    ceil_div_nbits(r.c.len + nbits) - 1, value)
         : r \in {block_reserve(c, 1)} })

\* BitVec::push_block without the block_reserve(1) before the write
BitVec_push_block_NoReserve(c, value) ==
    Only({ IF a.panic THEN a
           ELSE set_block([a.c EXCEPT !.len = a.c.len + nbits],
                    ceil_div_nbits(a.c.len + nbits) - 1, value)
         : a \in {BitVec_align_block(c, FALSE)} })

BitVec_push_block(c, value) ==
    Only({ IF a.panic THEN a
           ELSE Only({ IF r.panic THEN r
                       ELSE set_block([r.c EXCEPT !.len = r.c.len + nbits],
                                ceil_div_nbits(r.c.len + nbits) - 1, value)
                     : r \in {block_reserve(a.c, 1)} })
         : a \in {BitVec_align_block(c, FALSE)} })

align_block(c, value) ==
    IF c.kind = "BitVec" THEN BitVec_align_block(c, value)
    ELSE BitsPush_align_block(c, value)

push_block(c, value) ==
    IF c.kind = "BitVec" THEN BitVec_push_block(c, value)
    ELSE BitsPush_push_block(c, value)

(***************************************************************************)
(* The state machine: one container and a caller that calls one trait      *)
(* method at a time.  kind, bits, len and vb are the container; pc is the  *)
(* caller's position; call is the record of the call that has just         *)
(* returned or panicked: the method, its arguments (p: position, index or  *)
(* start; n: count; v: the value, a bit as 0 or 1), the container before   *)
(* the call, and the outcome.                                              *)
(***************************************************************************)
Self == [kind |-> kind, bits |-> bits, len |-> len, vb |-> vb]

B2N(b) == IF b THEN 1 ELSE 0

N2B(n) == n # 0

\* Option<bool> as a number: None is -1
OptCode(o) == IF o = <<>> THEN 0 - 1 ELSE B2N(o[1])

Fits(c) ==
    IF c.kind = "BitVec" THEN block_capacity(c) <= MaxBlocks
    ELSE Len(c.vb) <= MaxBools

Positions == 0 .. (bit_len(Self) + 1)

Counts == 0 .. W

Indices == 0 .. (block_len(Self) + 1)

NoCall ==
    [op |-> "none", p |-> 0, n |-> 0, v |-> 0, pre |-> VecBoolOf(<<>>),
     panic |-> FALSE, val |-> 0]

\* the containers a caller starts from: a BitVec created empty, with reserved
\* capacity or filled, and an empty Vec<bool>
Created ==
    {BitVec_with_block_capacity(k) : k \in 0 .. MaxPre}
        \cup {BitVec_new_fill(value, n) :
                  value \in BOOLEAN, n \in 0 .. mul_nbits(MaxPre)}
        \cup {VecBoolOf(<<>>)}

Init ==
    /\ \E c \in Created :
           /\ kind = c.kind
           /\ bits = c.bits
           /\ len = c.len
           /\ vb = c.vb
    /\ pc = "ready"
    /\ call = NoCall

\* the call op(p, n, v) on c, its value as a number
Invoke(c, op, p, n, v) ==
    Only({ [c |-> r.c, panic |-> r.panic,
            val |-> IF r.panic THEN 0
                    ELSE CASE op = "get_bit" -> B2N(r.val)
                           [] op = "pop_bit" -> OptCode(r.val)
                           [] OTHER -> r.val]
         : r \in { CASE op = "get_bit" -> get_bit(c, p)
                     [] op = "get_block" -> get_block(c, p)
                     [] op = "get_bits" -> get_bits(c, p, n)
                     [] op = "set_bit" -> set_bit(c, p, N2B(v))
                     [] op = "set_block" -> set_block(c, p, v)
                     [] op = "set_bits" -> set_bits(c, p, n, v)
                     [] op = "push_bit" -> push_bit(c, N2B(v))
                     [] op = "pop_bit" -> pop_bit(c)
                     [] op = "align_block" -> align_block(c, N2B(v))
                     [] op = "push_block" -> push_block(c, v) } })

\* the call op(p, n, v) is made and returns or panics; a call that would grow
\* the container past the model's bounds is not made
Call(op, p, n, v) ==
    \E r \in {Invoke(Self, op, p, n, v)} :
        /\ Fits(r.c)
        /\ kind' = r.c.kind
        /\ bits' = r.c.bits
        /\ len' = r.c.len
        /\ vb' = r.c.vb
        /\ pc' = "returned"
        /\ call' = [op |-> op, p |-> p, n |-> n, v |-> v, pre |-> Self,
                    panic |-> r.panic, val |-> r.val]

GetBit ==
    /\ pc = "ready"
    /\ \E p \in Positions : Call("get_bit", p, 0, 0)

GetBlock ==
    /\ pc = "ready"
    /\ \E i \in Indices : Call("get_block", i, 0, 0)

GetBits ==
    /\ pc = "ready"
    /\ \E p \in Positions, n \in Counts : Call("get_bits", p, n, 0)

SetBit ==
    /\ pc = "ready"
    /\ \E p \in Positions, v \in BOOLEAN : Call("set_bit", p, 0, B2N(v))

SetBlock ==
    /\ pc = "ready"
    /\ \E i \in Indices, v \in BlockVals : Call("set_block", i, 0, v)

SetBits ==
    /\ pc = "ready"
    /\ \E p \in Positions, n \in Counts, v \in BlockVals :
           Call("set_bits", p, n, v)

PushBit ==
    /\ pc = "ready"
    /\ \E v \in BOOLEAN : Call("push_bit", 0, 0, B2N(v))

PopBit ==
    /\ pc = "ready"
    /\ Call("pop_bit", 0, 0, 0)

AlignBlock ==
    /\ pc = "ready"
    /\ \E v \in BOOLEAN : Call("align_block", 0, 0, B2N(v))

PushBlock ==
    /\ pc = "ready"
    /\ \E v \in BlockVals : Call("push_block", 0, 0, v)

\* v.bit_slice(low..high).set_block(i, value) on a Vec<bool>: the slice is made,
\* written through and dropped.  call.pre is the slice the set_block was called
\* on (the vector, when the range was refused), call.n is high.
SliceSetBlock ==
    /\ pc = "ready"
    /\ kind = "VecBool"
    /\ \E low \in 0 .. Len(vb), high \in 0 .. (Len(vb) + 1), v \in BlockVals :
           \E s \in {bit_slice(Self, low, high)} :
               \E i \in 0 .. (IF s.panic THEN 0 ELSE block_len(s.c)) :
                   \E r \in {IF s.panic THEN s ELSE set_block(s.c, i, v)} :
                       /\ vb' = r.c.vb
                       /\ call' = [op |-> "slice_set_block", p |-> i,
                                   n |-> high, v |-> v, pre |-> s.c,
                                   panic |-> r.panic, val |-> 0]
    /\ pc' = "returned"
    /\ UNCHANGED <<kind, bits, len>>

\* the caller takes the result and is ready for its next call
Resume ==
    /\ pc = "returned"
    /\ pc' = "ready"
    /\ call' = NoCall
    /\ UNCHANGED <<kind, bits, len, vb>>

Next ==
    \/ GetBit
    \/ GetBlock
    \/ GetBits
    \/ SetBit
    \/ SetBlock
    \/ SetBits
    \/ PushBit
    \/ PopBit
    \/ AlignBlock
    \/ PushBlock
    \/ SliceSetBlock
    \/ Resume

Spec == Init /\ [][Next]_vars

(***************************************************************************)
(* The storage on its own: a caller that creates Inner values with new and *)
(* clone_resize.  bits is the Inner value the caller holds; clone_resize   *)
(* borrows it and returns a new value (call.val), which the caller then    *)
(* drops (Resume) or keeps in place of the old one (InnerAdopt), as        *)
(* BitVec's reallocation does.  call.p and call.n are the arguments        *)
(* (nblocks; len and new_cap), call.v is init.                             *)
(***************************************************************************)
InnerOf(inner) == [kind |-> "Inner", bits |-> inner, len |-> 0, vb |-> <<>>]

InnerInit ==
    /\ kind = "Inner"
    /\ bits = Inner_new(zero, 0)
    /\ len = 0
    /\ vb = <<>>
    /\ pc = "ready"
    /\ call = NoCall

InnerNew ==
    /\ pc = "ready"
    /\ \E init \in BlockVals, nblocks \in 0 .. MaxBlocks :
           /\ bits' = Inner_new(init, nblocks)
           /\ call' = [op |-> "new", p |-> nblocks, n |-> 0, v |-> init,
                       pre |-> InnerOf(bits), panic |-> FALSE, val |-> 0]
    /\ pc' = "returned"
    /\ UNCHANGED <<kind, len, vb>>

InnerCloneResize ==
    /\ pc = "ready"
    /\ \E n \in 0 .. (MaxBlocks + 1), new_cap \in 0 .. MaxBlocks :
           \E r \in {Inner_clone_resize(bits, n, new_cap)} :
               call' = [op |-> "clone_resize", p |-> n, n |-> new_cap, v |-> 0,
                        pre |-> InnerOf(bits), panic |-> r.panic,
                        val |-> r.val]
    /\ pc' = "returned"
    /\ UNCHANGED <<kind, bits, len, vb>>

InnerAdopt ==
    /\ pc = "returned"
    /\ call.op = "clone_resize"
    /\ ~call.panic
    /\ bits' = call.val
    /\ pc' = "ready"
    /\ call' = NoCall
    /\ UNCHANGED <<kind, len, vb>>

InnerNext ==
    \/ InnerNew
    \/ InnerCloneResize
    \/ InnerAdopt
    \/ Resume

InnerSpec == InnerInit /\ [][InnerNext]_vars

(***************************************************************************)
(* Properties.  They are stated on the record of the call that has just    *)
(* returned: Pre is the container before it, Self the container after it.  *)
(***************************************************************************)
Pre == call.pre

Returned(op) == pc = "returned" /\ call.op = op

\* the bits a container shows through get_bit, in order
Logical(c) == [i \in 1 .. bit_len(c) |-> get_bit(c, i - 1).val]

Readable(c) == \A q \in 0 .. (bit_len(c) - 1) : ~get_bit(c, q).panic

Partial(c) == mod_nbits(bit_len(c)) # 0

\* bit j of the stored block i of a BitVec
RawBit(c, i, j) == BitOf(c.bits.b[i + 1], j)

\* C1: after set_bit(p, v) with p < bit_len, get_bit(p) returns v, bit_len is
\* unchanged and every other bit keeps its value.
C1_SetBitGetBit ==
    (Returned("set_bit") /\ call.p < bit_len(Pre)) =>
        /\ ~call.panic
        /\ bit_len(Self) = bit_len(Pre)
        /\ get_bit(Self, call.p) = Ret(Self, N2B(call.v))
        /\ Readable(Self)
        /\ \A q \in 0 .. (bit_len(Pre) - 1) :
               q # call.p => get_bit(Self, q).val = get_bit(Pre, q).val

\* a set_bit on a BitVec with a partial last block that flips a bit and has
\* other bits to keep
C1_Witness ==
    /\ Returned("set_bit")
    /\ ~call.panic
    /\ kind = "BitVec"
    /\ Partial(Pre)
    /\ bit_len(Pre) > W
    /\ call.p < bit_len(Pre)
    /\ get_bit(Pre, call.p).val # N2B(call.v)
    /\ \E q \in 0 .. (bit_len(Pre) - 1) : q # call.p /\ get_bit(Pre, q).val

\* C2: for start + count <= bit_len and count <= W (count = 0 and
\* start = bit_len included), set_bits(start, count, v) succeeds and a
\* following get_bits(start, count) succeeds and returns v & low_mask(count).
C2_SetBitsGetBits ==
    (Returned("set_bits") /\ call.p + call.n <= bit_len(Pre) /\ call.n <= W) =>
        /\ ~call.panic
        /\ \A g \in {get_bits(Self, call.p, call.n)} :
               ~g.panic /\ g.val = BitAnd(call.v, low_mask(call.n))

\* C3: for count <= W and start + count <= bit_len, get_bits(start, count)
\* returns the block whose bit i is get_bit(start + i) for i < count and whose
\* bits from count on are 0.
C3_GetBitsLittleEndian ==
    (Returned("get_bits") /\ call.p + call.n <= bit_len(Pre) /\ call.n <= W) =>
        /\ ~call.panic
        /\ \A i \in 0 .. (W - 1) :
               BitOf(call.val, i) =
                   IF i < call.n THEN B2N(get_bit(Self, call.p + i).val) ELSE 0

\* C4: set_block on the partial last block of a BitVec leaves the stored
\* slack bits of that block as they were.
C4_SetBlockKeepsSlack ==
    (/\ Returned("set_block")
     /\ kind = "BitVec"
     /\ Partial(Pre)
     /\ call.p = block_len(Pre) - 1) =>
        /\ ~call.panic
        /\ \A j \in mod_nbits(bit_len(Pre)) .. (W - 1) :
               RawBit(Self, call.p, j) = RawBit(Pre, call.p, j)

\* the BitVecs that differ from c only in the stored slack bits of the partial
\* last block
SlackVariants(c) ==
    IF c.kind = "BitVec" /\ Partial(c)
    THEN LET i == block_len(c) - 1
             keep == Pow2(mod_nbits(c.len))
         IN  {[c EXCEPT !.bits.b[i + 1] = x] :
                 x \in {y \in BlockVals : y % keep = c.bits.b[i + 1] % keep}}
    ELSE {c}

ObservedOps ==
    {"get_bit", "get_block", "get_bits", "set_bit", "set_block", "set_bits",
     "align_block", "push_block"}

\* C5: slack bits are never observable.  The call made on any BitVec that
\* differs from Pre only in its slack bits has the same outcome and the same
\* value, and leaves the same length and the same bits, again differing in
\* slack bits at most; get_block on the partial last block returns 0 in every
\* bit from len mod W on.
C5_SlackUnobservable ==
    (pc = "returned" /\ call.op \in ObservedOps /\ Pre.kind = "BitVec") =>
        /\ \A c2 \in SlackVariants(Pre) :
               \A r2 \in {Invoke(c2, call.op, call.p, call.n, call.v)} :
                   /\ r2.panic = call.panic
                   /\ r2.val = call.val
                   /\ bit_len(r2.c) = bit_len(Self)
                   /\ Logical(r2.c) = Logical(Self)
                   /\ r2.c \in SlackVariants(Self)
        /\ (/\ call.op = "get_block"
            /\ ~call.panic
            /\ Partial(Pre)
            /\ call.p = block_len(Pre) - 1)
               => call.val < Pow2(mod_nbits(bit_len(Pre)))

\* a get_block of the partial last block whose stored slack bits are not 0
C5_Witness ==
    /\ Returned("get_block")
    /\ ~call.panic
    /\ kind = "BitVec"
    /\ Partial(Pre)
    /\ call.p = block_len(Pre) - 1
    /\ \E j \in mod_nbits(bit_len(Pre)) .. (W - 1) : RawBit(Pre, call.p, j) = 1

\* C6: a BitVec built by push_bit and pop_bit matches a stack of booleans,
\* step by step: push_bit(v) appends v to the bits get_bit shows, pop_bit on a
\* non-empty vector returns the last of them and removes it, and pop_bit on an
\* empty vector returns None and leaves the length 0.
C6_PushPopStack ==
    /\ (Returned("push_bit") /\ Pre.kind = "BitVec") =>
           /\ ~call.panic
           /\ Readable(Self)
           /\ Logical(Self) = Append(Logical(Pre), N2B(call.v))
    /\ (Returned("pop_bit") /\ Pre.kind = "BitVec") =>
           /\ ~call.panic
           /\ Readable(Self)
           /\ IF bit_len(Pre) = 0
              THEN call.val = 0 - 1 /\ bit_len(Self) = 0
              ELSE /\ call.val = B2N(Logical(Pre)[bit_len(Pre)])
                   /\ bit_len(Self) = bit_len(Pre) - 1
                   /\ Logical(Self) = SubSeq(Logical(Pre), 1, bit_len(Pre) - 1)

\* a pop_bit that returns Some(true) and leaves one true bit
C6_Witness ==
    /\ Returned("pop_bit")
    /\ kind = "BitVec"
    /\ call.val = 1
    /\ bit_len(Pre) = 2
    /\ bit_len(Self) = 1
    /\ get_bit(Self, 0).val

\* C7: align_block is idempotent.  After align_block(v) the length is a
\* multiple of W, an aligned container is left as it was, and a second
\* align_block(v2) changes neither the length nor the bits.
C7_AlignIdempotent ==
    Returned("align_block") =>
        /\ ~call.panic
        /\ mod_nbits(bit_len(Self)) = 0
        /\ (mod_nbits(bit_len(Pre)) = 0 => Self = Pre)
        /\ \A v2 \in BOOLEAN :
               \A r2 \in {align_block(Self, v2)} :
                   /\ ~r2.panic
                   /\ bit_len(r2.c) = bit_len(Self)
                   /\ Logical(r2.c) = Logical(Self)

\* an align_block that padded a BitVec with a partial last block
C7_Witness ==
    /\ Returned("align_block")
    /\ kind = "BitVec"
    /\ Partial(Pre)
    /\ bit_len(Self) > bit_len(Pre)

\* C8: after push_block(b) on a BitVec, get_block(block_len - 1) returns b,
\* bit_len is the previous length rounded up to a multiple of W plus W, and
\* every bit that was in the vector keeps its value.
C8_PushBlockGetBlock ==
    (Returned("push_block") /\ Pre.kind = "BitVec") =>
        /\ ~call.panic
        /\ get_block(Self, block_len(Self) - 1) = Ret(Self, call.v)
        /\ bit_len(Self) = ceil_div_nbits(bit_len(Pre)) * W + W
        /\ \A q \in 0 .. (bit_len(Pre) - 1) :
               /\ ~get_bit(Self, q).panic
               /\ get_bit(Self, q).val = get_bit(Pre, q).val

\* a push_block onto a BitVec with a partial last block that holds a 1
C8_Witness ==
    /\ Returned("push_block")
    /\ kind = "BitVec"
    /\ ~call.panic
    /\ Partial(Pre)
    /\ call.v # 0
    /\ \E q \in 0 .. (bit_len(Pre) - 1) : get_bit(Pre, q).val

\* C9: BitVec's align_block and push_block give the same length and the same
\* bits as the BitsPush defaults run on the same BitVec.
C9_SpecialisedAsDefault ==
    /\ (Returned("align_block") /\ Pre.kind = "BitVec") =>
           \A d \in {BitsPush_align_block(Pre, N2B(call.v))} :
               /\ d.panic = call.panic
               /\ bit_len(d.c) = bit_len(Self)
               /\ Logical(d.c) = Logical(Self)
    /\ (Returned("push_block") /\ Pre.kind = "BitVec") =>
           \A d \in {BitsPush_push_block(Pre, call.v)} :
               /\ d.panic = call.panic
               /\ bit_len(d.c) = bit_len(Self)
               /\ Logical(d.c) = Logical(Self)

\* an align_block(false) on a BitVec whose stored slack bits are not 0
C9_Witness ==
    /\ Returned("align_block")
    /\ kind = "BitVec"
    /\ call.v = 0
    /\ Partial(Pre)
    /\ \E j \in mod_nbits(bit_len(Pre)) .. (W - 1) :
           RawBit(Pre, block_len(Pre) - 1, j) = 1

OutOfRange ==
    CASE call.op \in {"get_bit", "set_bit"} -> call.p >= bit_len(Pre)
      [] call.op \in {"get_block", "set_block"} -> call.p >= block_len(Pre)
      [] call.op \in {"get_bits", "set_bits"} -> call.p + call.n > bit_len(Pre)
      [] OTHER -> FALSE

\* C10: every out-of-range get_bit, set_bit, get_block, set_block, get_bits
\* and set_bits panics and writes nothing, for the defaults and for BitVec.
C10_OutOfRangePanics ==
    (pc = "returned" /\ OutOfRange) => (call.panic /\ Self = Pre)

\* a set_block on a BitVec at an index past block_len that is allocated
C10_Witness ==
    /\ Returned("set_block")
    /\ kind = "BitVec"
    /\ call.panic
    /\ call.p >= block_len(Pre)
    /\ call.p < block_capacity(Pre)

\* the assertion of a method that fails on the call made: the bounds check of
\* the method itself, or that of the get_block which get_bits and set_bits call
\* first
AssertionFails ==
    \/ OutOfRange
    \/ /\ call.op \in {"get_bits", "set_bits"}
       /\ ~(Address(call.p).block_index < block_len(Pre))

\* C11: in every state of a BitVec, len <= (allocated blocks) * W, every block
\* index below block_len addresses an allocated block, and a call panics only
\* on a failed assertion of its arguments, never on the storage's index check
\* or on the empty storage.
C11_LenWithinStorage ==
    kind = "BitVec" =>
        /\ len <= mul_nbits(block_capacity(Self))
        /\ \A i \in 0 .. (block_len(Self) - 1) :
               /\ ~Inner_index(bits, i).panic
               /\ ~Inner_index_mut(bits, i, zero).panic
        /\ (pc = "returned" /\ call.panic) => AssertionFails

\* a push_block that had to grow the storage of a BitVec with a partial last
\* block and leaves it full
C11_Witness ==
    /\ Returned("push_block")
    /\ kind = "BitVec"
    /\ ~call.panic
    /\ Partial(Pre)
    /\ block_capacity(Self) > block_capacity(Pre)
    /\ len = mul_nbits(block_capacity(Self))

\* the allocation is absent exactly when the block count is 0, and a present
\* allocation is not empty
StorageInvariant(inner) ==
    /\ Inner_invariant(inner)
    /\ ~inner.some <=> Inner_len(inner) = 0

\* C12: every Inner made by new and clone_resize satisfies the storage
\* invariant.  new(init, nblocks) has len() = nblocks and every block init.
\* clone_resize(n, new_cap) returns unless it has to copy a block the source
\* does not have; what it returns has len() = new_cap, its first
\* min(n, new_cap) blocks are the source's, the others are zero, and the
\* source is as it was.
C12_InnerInvariant ==
    /\ StorageInvariant(bits)
    /\ Returned("new") =>
           /\ Inner_len(bits) = call.p
           /\ \A i \in 0 .. (call.p - 1) : Inner_index(bits, i).val = call.v
    /\ Returned("clone_resize") =>
           /\ bits = Pre.bits
           /\ call.panic <=> Min(call.p, call.n) > Inner_len(Pre.bits)
           /\ ~call.panic =>
                  /\ StorageInvariant(call.val)
                  /\ Inner_len(call.val) = call.n
                  /\ \A i \in 0 .. (call.n - 1) :
                         Inner_index(call.val, i).val =
                             IF i < Min(call.p, call.n)
                             THEN Inner_index(Pre.bits, i).val
                             ELSE zero

\* a clone_resize that copies a block that is not zero and leaves out another
\* one, where the new storage has a block more than were copied
C12_Witness ==
    /\ Returned("clone_resize")
    /\ ~call.panic
    /\ call.p > 0
    /\ call.p < Inner_len(Pre.bits)
    /\ call.n > call.p
    /\ Inner_index(Pre.bits, 0).val # zero
    /\ Inner_index(Pre.bits, call.p).val # zero

\* C13: on the mutable slice [low, high) of a Vec<bool>, bit_len is
\* high - low, and set_block(i, v) with i < ceil((high - low) / W) returns,
\* sets bit low + i*W + j of the vector to bit j of v for every j < W with
\* i*W + j < high - low, and leaves every other bit of the vector, inside and
\* outside the slice, and the vector's length as they were.
C13_SliceSetBlock ==
    (/\ Returned("slice_set_block")
     /\ Pre.kind = "Slice"
     /\ call.p < ceil_div_nbits(call.n - Pre.low)) =>
        /\ bit_len(Pre) = call.n - Pre.low
        /\ ~call.panic
        /\ bit_len(Self) = Len(Pre.vb)
        /\ \A q \in 0 .. (bit_len(Self) - 1) :
               \A j \in {q - (Pre.low + mul_nbits(call.p))} :
                   get_bit(Self, q) =
                       Ret(Self, IF 0 <= j /\ j < W /\ q < call.n
                                 THEN BitOf(call.v, j) = 1
                                 ELSE Pre.vb[q + 1])

\* a set_block on a slice whose block lies across two blocks of the vector,
\* with true bits of the vector before and after the slice
C13_Witness ==
    /\ Returned("slice_set_block")
    /\ Pre.kind = "Slice"
    /\ ~call.panic
    /\ mod_nbits(Pre.low) # 0
    /\ Pre.low + mul_nbits(call.p) + W <= call.n
    /\ call.n < bit_len(Self)
    /\ Pre.vb[Pre.low]
    /\ Pre.vb[call.n + 1]
    /\ call.v = 0

\* C14: set_bits changes nothing outside its span.  After
\* set_bits(start, count, v) with count <= W and start + count <= bit_len,
\* whatever v is, bit_len is as before and get_bit(q) returns what it
\* returned before for every q < bit_len outside [start, start + count).
C14_SetBitsFrame ==
    (Returned("set_bits") /\ call.n <= W /\ call.p + call.n <= bit_len(Pre)) =>
        /\ bit_len(Self) = bit_len(Pre)
        /\ \A q \in 0 .. (bit_len(Pre) - 1) :
               (q < call.p \/ q >= call.p + call.n) =>
                   get_bit(Self, q) = Ret(Self, get_bit(Pre, q).val)

\* a set_bits of zeros across two blocks of a BitVec, with a true bit before
\* the span in the first block and one after it in the second
C14_Witness ==
    /\ Returned("set_bits")
    /\ kind = "BitVec"
    /\ ~call.panic
    /\ call.v = 0
    /\ Address(call.p).bit_offset > 0
    /\ Address(call.p).bit_offset + call.n > W
    /\ call.p + call.n < mul_nbits(Address(call.p).block_index + 2)
    /\ call.p + call.n < bit_len(Pre)
    /\ get_bit(Pre, call.p - 1).val
    /\ get_bit(Pre, call.p + call.n).val

====
